---- MODULE Spec2Model ----
(***************************************************************************)
(* ApiToolManageService (api/services/tools/api_tools_manage_service.py):  *)
(* create / update / delete / test-preview of API tool providers against   *)
(* the record store reached through db.session.                            *)
(*                                                                         *)
(* Strings that the code transforms (provider names, credential values)    *)
(* are sequences of one-character strings, so that strip, mask, encrypt    *)
(* and decrypt are computed and not assumed.  A schema document is a token *)
(* that the parser maps to a number n of operation bundles, whose          *)
(* operation ids are 1..n in parser order.  The fields icon, description,  *)
(* privacy_policy, custom_disclaimer, schema and schema_type_str are       *)
(* written together with tools_str and read by no branch; the record       *)
(* field tools stands for that group.                                      *)
(***************************************************************************)
EXTENDS Integers, Sequences, FiniteSets, TLC

VARIABLES
    store,       \* the rows as db.session sees them (identity map + pending changes)
    committed,   \* the rows the last db.session.commit() made durable
    nextId,      \* the next primary key the store assigns
    labelStore,  \* ToolLabelManager: provider id -> labels
    call,        \* the last service call and what it looked up
    result,      \* how the last service call ended
    bound,       \* the credentials test_api_tool_preview handed to ToolRuntime
    proc         \* interleaved requests: each one's position in its handler

vars == <<store, committed, nextId, labelStore, call, result, bound, proc>>

(***************************************************************************)
(* Bounds and program constants                                            *)
(***************************************************************************)
MaxIds == 2

MaxTools == 100

Tenants == {"t1", "t2"}

Names == {<<"a">>, <<"b">>, <<" ", "a", " ">>}

SchemaTypes == {"openapi", "swagger", "openai_plugin", "openai_actions"}

SchemaTypeInputs == {"openapi", "yaml"}

AuthTypes == {"none", "api_key"}

Schemas == {"bad", "full", "over"}

EmptyCreds == [f \in {} |-> 0]

Secret1 == <<"x", "1">>

Secret2 == <<"x", "2">>

(***************************************************************************)
(* Pure helpers                                                            *)
(***************************************************************************)
IsSpace(c) == c = " "

RECURSIVE LStrip(_)
LStrip(s) == IF s # <<>> /\ IsSpace(Head(s)) THEN LStrip(Tail(s)) ELSE s

RECURSIVE RStrip(_)
RStrip(s) == IF s # <<>> /\ IsSpace(s[Len(s)]) THEN RStrip(SubSeq(s, 1, Len(s) - 1)) ELSE s

Strip(s) == RStrip(LStrip(s))

\* ApiBasedToolSchemaParser.auto_parse_to_tool_bundle, wrapped so that every
\* parser failure becomes one ValueError.
ParseOk(schema) == schema # "bad"

BundleCount(schema) == IF schema = "full" THEN MaxTools ELSE MaxTools + 1

\* The masked display form of a secret: first character kept, the rest and
\* one more position redacted; never the plaintext of a non-empty secret.
Mask(v) == IF v = <<>> THEN <<>> ELSE <<Head(v)>> \o [i \in 1..Len(v) |-> "*"]

Enc(t, v) == <<"#", t>> \o v

IsCipher(t, v) == Len(v) >= 2 /\ v[1] = "#" /\ v[2] = t

Dec(t, v) == IF IsCipher(t, v) THEN SubSeq(v, 3, Len(v)) ELSE v

\* The credential fields the controller built for an auth type marks secret.
SecretFields(auth) == IF auth = "api_key" THEN {"api_key_value"} ELSE {}

EncryptCreds(t, auth, c) ==
    [f \in DOMAIN c |-> IF f \in SecretFields(auth) THEN Enc(t, c[f]) ELSE c[f]]

DecryptCreds(t, auth, c) ==
    [f \in DOMAIN c |-> IF f \in SecretFields(auth) THEN Dec(t, c[f]) ELSE c[f]]

MaskCreds(auth, c) ==
    [f \in DOMAIN c |-> IF f \in SecretFields(auth) THEN Mask(c[f]) ELSE c[f]]

\* decrypt raises or passes the value through when it is no ciphertext of
\* this tenant; which of the two is the cipher's business.
Undecryptable(t, auth, c) ==
    \E f \in DOMAIN c \cap SecretFields(auth) : ~IsCipher(t, c[f])

MergeMasked(submitted, masked, original) ==
    [f \in DOMAIN submitted |->
        IF f \in DOMAIN masked /\ submitted[f] = masked[f]
        THEN original[f] ELSE submitted[f]]

\* Find with the tenant filter dropped.
FindAnyTenant(S, t, n) == {r \in S : r.name = n}

Find(S, t, n) == {r \in S : r.tenant = t /\ r.name = n}

CredInputs ==
    { EmptyCreds,
      [auth_type |-> "none"],
      [auth_type |-> "basic"],
      [auth_type |-> "api_key"],
      [auth_type |-> "api_key", api_key_value |-> Secret1],
      [auth_type |-> "api_key", api_key_value |-> Secret2],
      [auth_type |-> "api_key", api_key_value |-> Mask(Secret1)],
      [auth_type |-> "none", api_key_value |-> Mask(Secret1)] }

NoCall == [op |-> "none"]

Procs == {1, 2}

Idle == [pc |-> "idle"]

NoBound == [set |-> FALSE, creds |-> EmptyCreds]

Init ==
    /\ store = {}
    /\ committed = {}
    /\ nextId = 1
    /\ labelStore = [i \in {} |-> {}]
    /\ call = NoCall
    /\ result = "none"
    /\ bound = NoBound
    /\ proc = [p \in Procs |-> Idle]

(***************************************************************************)
(* create_api_tool_provider                                                *)
(***************************************************************************)
\* The checks before the record is added, in the order of the code.
CreateError(S, t, name, schemaType, schema, creds) ==
    IF schemaType \notin SchemaTypes THEN "invalid_schema_type"
    ELSE IF Find(S, t, name) # {} THEN "conflict"
    ELSE IF ~ParseOk(schema) THEN "schema_error"
    ELSE IF BundleCount(schema) > MaxTools THEN "limit"
    ELSE IF "auth_type" \notin DOMAIN creds THEN "auth_required"
    ELSE IF creds.auth_type \notin AuthTypes THEN "auth_invalid"
    ELSE "ok"

\* ToolLabelManager.update_tool_labels(controller, labels)
SetLabels(L, id, labels) ==
    [i \in DOMAIN L \cup {id} |-> IF i = id THEN labels ELSE L[i]]

Create(t, rawName, schemaType, schema, creds, labels, labelsFail) ==
    LET name == Strip(rawName)
        err  == CreateError(store, t, name, schemaType, schema, creds)
    IN  /\ UNCHANGED proc
        /\ call' = [op |-> "create", tenant |-> t, name |-> rawName,
                    schemaType |-> schemaType, schema |-> schema, creds |-> creds,
                    found |-> IF err = "ok" THEN nextId ELSE 0]
        /\ bound' = NoBound
        /\ IF err # "ok"
           THEN /\ result' = err
                /\ UNCHANGED <<store, committed, nextId, labelStore>>
           ELSE /\ nextId <= MaxIds
                /\ store' = store \cup
                       {[id |-> nextId, tenant |-> t, name |-> name,
                         tools |-> BundleCount(schema),
                         creds |-> EncryptCreds(t, creds.auth_type, creds)]}
                /\ committed' = store'
                /\ nextId' = nextId + 1
                /\ IF labelsFail
                   THEN result' = "label_error" /\ UNCHANGED labelStore
                   ELSE result' = "success" /\ labelStore' = SetLabels(labelStore, nextId, labels)

(***************************************************************************)
(* update_api_tool_provider                                                *)
(***************************************************************************)
Update(t, rawName, orig, schemaType, schema, creds, labels, labelsFail, lenient) ==
    LET name == Strip(rawName)
        mk(id) == [op |-> "update", tenant |-> t, name |-> rawName, orig |-> orig,
                   schemaType |-> schemaType, schema |-> schema, creds |-> creds,
                   found |-> id]
    IN  /\ bound' = NoBound
        /\ UNCHANGED <<nextId, proc>>
        /\ IF schemaType \notin SchemaTypes
           THEN /\ call' = mk(0) /\ result' = "invalid_schema_type"
                /\ UNCHANGED <<store, committed, labelStore>>
           ELSE IF Find(store, t, orig) = {}
           THEN /\ call' = mk(0) /\ result' = "not_found"
                /\ UNCHANGED <<store, committed, labelStore>>
           ELSE \E r \in Find(store, t, orig) :
                /\ call' = mk(r.id)
                /\ IF ~ParseOk(schema)
                   THEN /\ result' = "schema_error"
                        /\ UNCHANGED <<store, committed, labelStore>>
                   ELSE LET r1 == [r EXCEPT !.name = name, !.tools = BundleCount(schema)]
                            S1 == (store \ {r}) \cup {r1}
                        IN  IF "auth_type" \notin DOMAIN creds
                            THEN /\ result' = "auth_required"
                                 /\ store' = S1
                                 /\ UNCHANGED <<committed, labelStore>>
                            ELSE IF creds.auth_type \notin AuthTypes
                            THEN /\ result' = "auth_invalid"
                                 /\ store' = S1
                                 /\ UNCHANGED <<committed, labelStore>>
                            ELSE IF Undecryptable(t, creds.auth_type, r.creds) /\ ~lenient
                            THEN /\ result' = "decrypt_error"
                                 /\ store' = S1
                                 /\ UNCHANGED <<committed, labelStore>>
                            ELSE LET auth     == creds.auth_type
                                     original == DecryptCreds(t, auth, r.creds)
                                     masked   == MaskCreds(auth, original)
                                     merged   == MergeMasked(creds, masked, original)
                                     r2 == [r1 EXCEPT !.creds = EncryptCreds(t, auth, merged)]
                                 IN  /\ store' = (store \ {r}) \cup {r2}
                                     /\ committed' = store'
                                     /\ IF labelsFail
                                        THEN result' = "label_error" /\ UNCHANGED labelStore
                                        ELSE /\ result' = "success"
                                             /\ labelStore' = SetLabels(labelStore, r.id, labels)

(***************************************************************************)
(* delete_api_tool_provider                                                *)
(***************************************************************************)
Delete(t, name) ==
    /\ bound' = NoBound
    /\ UNCHANGED <<nextId, labelStore, proc>>
    /\ IF Find(store, t, name) = {}
       THEN /\ call' = [op |-> "delete", tenant |-> t, name |-> name, found |-> 0]
            /\ result' = "not_found"
            /\ UNCHANGED <<store, committed>>
       ELSE \E r \in Find(store, t, name) :
            /\ call' = [op |-> "delete", tenant |-> t, name |-> name, found |-> r.id]
            /\ result' = "success"
            /\ store' = store \ {r}
            /\ committed' = store'

(***************************************************************************)
(* test_api_tool_preview                                                   *)
(***************************************************************************)
ToolNames == {1, MaxTools + 2}

\* validate_credentials_format of the controller built for the auth type
FormatOk(c) ==
    /\ "auth_type" \in DOMAIN c
    /\ c.auth_type \in AuthTypes
    /\ c.auth_type = "api_key" => "api_key_value" \in DOMAIN c

\* PreviewOutcome with the live call outside the try.
PreviewOutcomeRaises(formatOk, live) ==
    IF live = "throws" THEN "raised" ELSE IF ~formatOk THEN "error" ELSE "result"

\* The try/except around format validation, tool lookup, binding and the
\* live validation call.
PreviewOutcome(formatOk, live) ==
    IF ~formatOk \/ live = "throws" THEN "error" ELSE "result"

FakeProvider(schema, creds) ==
    [id |-> 0, tenant |-> "", name |-> <<>>, tools |-> BundleCount(schema), creds |-> creds]

Preview(t, name, tool, creds, schemaType, schema, live, lenient) ==
    LET mk(id) == [op |-> "preview", tenant |-> t, name |-> name, tool |-> tool,
                   schemaType |-> schemaType, schema |-> schema, creds |-> creds,
                   live |-> live, found |-> id]
        stop(id, res) == call' = mk(id) /\ result' = res /\ bound' = NoBound
    IN  /\ UNCHANGED <<store, committed, nextId, labelStore, proc>>
        /\ IF schemaType \notin SchemaTypes THEN stop(0, "invalid_schema_type")
           ELSE IF ~ParseOk(schema) THEN stop(0, "schema_error")
           ELSE IF tool \notin 1..BundleCount(schema) THEN stop(0, "invalid_tool")
           ELSE \E p \in (IF Find(store, t, name) = {}
                          THEN {FakeProvider(schema, creds)}
                          ELSE Find(store, t, name)) :
                IF "auth_type" \notin DOMAIN creds THEN stop(p.id, "auth_required")
                ELSE IF creds.auth_type \notin AuthTypes THEN stop(p.id, "auth_invalid")
                ELSE IF p.id # 0 /\ Undecryptable(t, creds.auth_type, creds) /\ ~lenient
                THEN stop(p.id, "decrypt_error")
                ELSE LET auth      == creds.auth_type
                         decrypted == DecryptCreds(t, auth, creds)
                         masked    == MaskCreds(auth, decrypted)
                         final     == IF p.id # 0
                                      THEN MergeMasked(creds, masked, decrypted)
                                      ELSE creds
                     IN  /\ call' = mk(p.id)
                         /\ result' = PreviewOutcome(FormatOk(final), live)
                         /\ bound' = IF FormatOk(final)
                                     THEN [set |-> TRUE, creds |-> final]
                                     ELSE NoBound

(***************************************************************************)
(* The scoped session is discarded at the end of a request: whatever was   *)
(* changed and not committed is rolled back.                               *)
(***************************************************************************)
RemoveSession ==
    /\ store # committed
    /\ store' = committed
    /\ call' = [op |-> "remove_session"]
    /\ result' = "none"
    /\ bound' = NoBound
    /\ UNCHANGED <<committed, nextId, labelStore, proc>>

(***************************************************************************)
(* Spec: tenancy and naming.  Requests range over both tenants and all     *)
(* names, with a valid schema and credentials.                             *)
(***************************************************************************)
Labels == {"search"}

NoAuth == [auth_type |-> "none"]

NCreate ==
    \E t \in Tenants, n \in Names, st \in SchemaTypeInputs :
        Create(t, n, st, "full", NoAuth, Labels, FALSE)

NUpdate ==
    \E t \in Tenants, n \in Names, o \in Names, st \in SchemaTypeInputs :
        Update(t, n, o, st, "full", NoAuth, Labels, FALSE, TRUE)

NDelete == \E t \in Tenants, n \in Names : Delete(t, n)

NPreview ==
    \E t \in Tenants, n \in Names, st \in SchemaTypeInputs, live \in {"ok", "throws"} :
        Preview(t, n, 1, NoAuth, st, "full", live, TRUE)

Next == NCreate \/ NUpdate \/ NDelete \/ NPreview

Spec == Init /\ [][Next]_vars

(***************************************************************************)
(* SpecPayload: one tenant, two names; the schema type, the schema and the *)
(* presence and value of auth_type range over their valid and invalid      *)
(* values.                                                                 *)
(***************************************************************************)
PayloadNames == {<<"a">>, <<"b">>}

PayloadCreds == {NoAuth, EmptyCreds, [auth_type |-> "basic"]}

PCreate ==
    \E n \in PayloadNames, st \in SchemaTypeInputs, sc \in Schemas, c \in PayloadCreds :
        Create("t1", n, st, sc, c, Labels, FALSE)

PUpdate ==
    \E n \in PayloadNames, o \in PayloadNames, st \in SchemaTypeInputs, sc \in Schemas,
       c \in PayloadCreds :
        Update("t1", n, o, st, sc, c, Labels, FALSE, TRUE)

PDelete == \E n \in PayloadNames : Delete("t1", n)

PPreview ==
    \E n \in PayloadNames, sc \in Schemas, c \in PayloadCreds :
        Preview("t1", n, 1, c, "openapi", sc, "ok", TRUE)

PayloadNext == PCreate \/ PUpdate \/ PDelete \/ PPreview \/ RemoveSession

SpecPayload == Init /\ [][PayloadNext]_vars

(***************************************************************************)
(* SpecCreds: one tenant, one name; the submitted credentials range over   *)
(* CredInputs, and the cipher either raises on a value it cannot decrypt   *)
(* or passes it through.                                                   *)
(***************************************************************************)
CCreate ==
    \E st \in SchemaTypeInputs, c \in CredInputs, labelsFail \in BOOLEAN :
        Create("t1", <<"a">>, st, "full", c, Labels, labelsFail)

CUpdate ==
    \E st \in SchemaTypeInputs, c \in CredInputs, labelsFail \in BOOLEAN,
       lenient \in BOOLEAN :
        Update("t1", <<"a">>, <<"a">>, st, "full", c, Labels, labelsFail, lenient)

CDelete == Delete("t1", <<"a">>)

CPreview ==
    \E tool \in ToolNames, st \in SchemaTypeInputs, sc \in {"full", "bad"},
       c \in CredInputs, live \in {"ok", "throws"}, lenient \in BOOLEAN :
        Preview("t1", <<"a">>, tool, c, st, sc, live, lenient)

\* Name and bundles never change here, so no request leaves the session dirty.
CredsNext == CCreate \/ CUpdate \/ CDelete \/ CPreview

SpecCreds == Init /\ [][CredsNext]_vars

(***************************************************************************)
(* SpecSteps: two requests, each in a session of its own, interleave at    *)
(* the calls a handler makes on shared collaborators: the lookup, the      *)
(* commit, the cache invalidation and the label attachment.  committed is  *)
(* the shared record store.  The payload is valid, so the checks between   *)
(* the lookup and the commit pass.                                         *)
(***************************************************************************)
\* Stages with the labels attached before the commit.
StagesLabelsFirst(op) ==
    IF op = "create" THEN <<"labels", "commit">>
    ELSE IF op = "update" THEN <<"labels", "commit", "cache">>
    ELSE <<"commit">>

\* What each handler does after its lookup, in the order of the code.
Stages(op) ==
    IF op = "create" THEN <<"commit", "labels">>
    ELSE IF op = "update" THEN <<"commit", "cache", "labels">>
    ELSE <<"commit">>

Ended(p, res) == [proc EXCEPT ![p].pc = "done", ![p].res = res]

Begin(p, op, t, rawName, orig) ==
    LET name == IF op = "delete" THEN rawName ELSE Strip(rawName)
        key  == IF op = "create" THEN name ELSE IF op = "update" THEN orig ELSE rawName
        hit  == Find(committed, t, key)
        req(row, res) ==
            [pc |-> IF res = "pending" THEN "run" ELSE "done", op |-> op, tenant |-> t,
             name |-> name, row |-> row, k |-> 1, did |-> {}, lab |-> "none", res |-> res]
        fresh == [id |-> 0, tenant |-> t, name |-> name, tools |-> BundleCount("full"),
                  creds |-> EncryptCreds(t, "none", NoAuth)]
    IN  /\ proc[p].pc = "idle"
        /\ UNCHANGED <<store, committed, nextId, labelStore, call, result, bound>>
        /\ IF op = "create"
           THEN proc' = [proc EXCEPT ![p] =
                    IF CreateError(committed, t, name, "openapi", "full", NoAuth) = "ok"
                    THEN req(fresh, "pending")
                    ELSE req(fresh, CreateError(committed, t, name, "openapi", "full", NoAuth))]
           ELSE IF hit = {}
                THEN proc' = [proc EXCEPT ![p] = req(fresh, "not_found")]
                ELSE \E r \in hit : proc' = [proc EXCEPT ![p] = req(r, "pending")]

\* The row a session loaded may be gone when it commits: the store then
\* either reports the stale row or matches no row and goes on.
Commit(p, strict) ==
    LET q    == proc[p]
        live == \E r \in committed : r.id = q.row.id
        new  == [q.row EXCEPT !.name = q.name]
        adv  == [proc EXCEPT ![p].k = q.k + 1, ![p].did = q.did \cup {"commit"}]
    IN  /\ UNCHANGED labelStore
        /\ IF q.op = "create"
           THEN /\ nextId <= MaxIds
                /\ committed' = committed \cup {[q.row EXCEPT !.id = nextId]}
                /\ nextId' = nextId + 1
                /\ proc' = [adv EXCEPT ![p].row = [q.row EXCEPT !.id = nextId]]
           ELSE /\ UNCHANGED nextId
                /\ IF ~live /\ strict
                   THEN /\ proc' = Ended(p, "store_error")
                        /\ UNCHANGED committed
                   ELSE /\ committed' =
                              IF q.op = "update"
                              THEN {IF r.id = q.row.id THEN new ELSE r : r \in committed}
                              ELSE {r \in committed : r.id # q.row.id}
                        /\ proc' = [adv EXCEPT ![p].row = new]

InvalidateCache(p) ==
    /\ UNCHANGED <<committed, nextId, labelStore>>
    /\ proc' = [proc EXCEPT ![p].k = proc[p].k + 1, ![p].did = proc[p].did \cup {"cache"}]

AttachLabels(p, fail) ==
    LET q == proc[p]
        done == [proc EXCEPT ![p].k = q.k + 1, ![p].did = q.did \cup {"labels"},
                             ![p].lab = IF fail THEN "failed" ELSE "ok"]
    IN  /\ UNCHANGED <<committed, nextId>>
        /\ IF fail
           THEN /\ proc' = [done EXCEPT ![p].pc = "done", ![p].res = "label_error"]
                /\ UNCHANGED labelStore
           ELSE /\ proc' = done
                /\ labelStore' = SetLabels(labelStore, q.row.id, Labels)

AtStage(p, stage) ==
    /\ proc[p].pc = "run"
    /\ proc[p].k <= Len(Stages(proc[p].op))
    /\ Stages(proc[p].op)[proc[p].k] = stage

CommitStep(p) ==
    /\ AtStage(p, "commit")
    /\ UNCHANGED <<store, call, result, bound>>
    /\ \E strict \in BOOLEAN : Commit(p, strict)

CacheStep(p) ==
    /\ AtStage(p, "cache")
    /\ UNCHANGED <<store, call, result, bound>>
    /\ InvalidateCache(p)

LabelStep(p) ==
    /\ AtStage(p, "labels")
    /\ UNCHANGED <<store, call, result, bound>>
    /\ \E fail \in BOOLEAN : AttachLabels(p, fail)

Return(p) ==
    /\ proc[p].pc = "run"
    /\ proc[p].k > Len(Stages(proc[p].op))
    /\ proc' = Ended(p, "success")
    /\ UNCHANGED <<store, committed, nextId, labelStore, call, result, bound>>

Reset(p) ==
    /\ proc[p].pc = "done"
    /\ proc' = [proc EXCEPT ![p] = Idle]
    /\ UNCHANGED <<store, committed, nextId, labelStore, call, result, bound>>

StepsNext ==
    \E p \in Procs :
        \/ \E op \in {"create", "update", "delete"}, n \in PayloadNames, o \in PayloadNames :
               Begin(p, op, "t1", n, o)
        \/ CommitStep(p)
        \/ CacheStep(p)
        \/ LabelStep(p)
        \/ Return(p)
        \/ Reset(p)

SpecSteps == Init /\ [][StepsNext]_vars

(***************************************************************************)
(* The claims                                                              *)
(***************************************************************************)
SameKey(r, t, n) == r.tenant = t /\ r.name = n

RowOf(S, id) == CHOOSE r \in S : r.id = id

\* The plaintext a record stores, and the masked form a reader is shown.
PlainOf(r) == DecryptCreds(r.tenant, r.creds.auth_type, r.creds)

ShownOf(r) == MaskCreds(r.creds.auth_type, PlainOf(r))

Committing == {"success", "label_error"}

WriteErrors ==
    {"invalid_schema_type", "conflict", "not_found", "schema_error", "limit",
     "auth_required", "auth_invalid"}

\* C1: no two persisted records share a (tenant id, name) pair, and every
\* persisted name is free of surrounding whitespace.
C1_UniqueTrimmedNames ==
    /\ \A r1 \in committed : \A r2 \in committed :
           (r1.tenant = r2.tenant /\ r1.name = r2.name) => r1 = r2
    /\ \A r \in committed :
           r.name = <<>> \/ (~IsSpace(Head(r.name)) /\ ~IsSpace(r.name[Len(r.name)]))

\* C2 as stated: every create for a (tenant, trimmed name) that already has a
\* record is rejected with the conflict error and persists nothing; a conflict
\* is raised only for a record of the same tenant; a create that succeeds adds
\* its record beside all the others.
C2_CreateConflictWheneverNameTaken ==
    [][call'.op = "create" =>
         /\ (\E r \in store : SameKey(r, call'.tenant, Strip(call'.name)))
                => (result' = "conflict" /\ store' = store /\ committed' = committed)
         /\ result' = "conflict"
                => \E r \in store : SameKey(r, call'.tenant, Strip(call'.name))
         /\ result' \in Committing
                => /\ store \subseteq store'
                   /\ committed' = store'
                   /\ \E r \in store' \ store : SameKey(r, call'.tenant, Strip(call'.name))
      ]_vars

\* C2 amended: a create whose schema type is recognized is rejected with the
\* conflict error, persisting nothing, whenever the (tenant, trimmed name) has
\* a record; with an unrecognized schema type it is rejected with the schema
\* type error, persisting nothing; a conflict is raised only for a record of
\* the same tenant; a create that succeeds adds its record beside the others.
C2_CreateConflictWhenSchemaTypeValid ==
    [][call'.op = "create" =>
         /\ (/\ call'.schemaType \in SchemaTypes
             /\ \E r \in store : SameKey(r, call'.tenant, Strip(call'.name)))
                => (result' = "conflict" /\ store' = store /\ committed' = committed)
         /\ call'.schemaType \notin SchemaTypes
                => (result' = "invalid_schema_type" /\ store' = store /\ committed' = committed)
         /\ result' = "conflict"
                => \E r \in store : SameKey(r, call'.tenant, Strip(call'.name))
         /\ result' \in Committing
                => /\ store \subseteq store'
                   /\ committed' = store'
                   /\ \E r \in store' \ store : SameKey(r, call'.tenant, Strip(call'.name))
      ]_vars

\* A create was rejected as a conflict through its trimmed name while the same
\* name is held by records of two tenants.
C2_Witness ==
    /\ call.op = "create"
    /\ result = "conflict"
    /\ call.name # Strip(call.name)
    /\ \E r1 \in committed : \E r2 \in committed :
           r1.name = Strip(call.name) /\ r2.name = r1.name /\ r1.tenant # r2.tenant

\* C3: after an update that commits, every submitted field equal to the masked
\* form of the plaintext stored before keeps that plaintext, and every other
\* submitted field is stored as submitted.
C3_MergeOnUpdate ==
    [][(call'.op = "update" /\ result' \in Committing) =>
         LET old == RowOf(store, call'.found)
             new == RowOf(store', call'.found)
         IN  \A f \in DOMAIN call'.creds :
                 IF f \in DOMAIN old.creds /\ call'.creds[f] = ShownOf(old)[f]
                 THEN PlainOf(new)[f] = PlainOf(old)[f]
                 ELSE PlainOf(new)[f] = call'.creds[f]
      ]_vars

\* C4: when the preview finds a persisted record, every submitted field equal
\* to the masked form of the record's stored plaintext reaches the tool as
\* that stored plaintext.
C4_PreviewUsesStoredSecret ==
    (call.op = "preview" /\ call.found # 0 /\ bound.set) =>
        LET r == RowOf(store, call.found)
        IN  \A f \in DOMAIN call.creds \cap DOMAIN r.creds :
                call.creds[f] = ShownOf(r)[f] => bound.creds[f] = PlainOf(r)[f]

\* C5: every persisted record holds at most MaxTools bundles, and a create
\* that succeeds compiled at most MaxTools bundles.
C5_AtMostMaxToolsBundles ==
    /\ \A r \in committed : r.tools <= MaxTools
    /\ (call.op = "create" /\ result \in Committing) => BundleCount(call.schema) <= MaxTools

\* C6: a create or update that fails with one of the listed errors leaves the
\* records, as the session shows them and as committed, as they were.
C6_FailedWriteChangesNothing ==
    [][(call'.op \in {"create", "update"} /\ result' \in WriteErrors) =>
         (store' = store /\ committed' = committed)
      ]_vars

\* C7: a preview with a recognized schema type, a parseable schema holding the
\* requested operation and a recognized auth_type, for a (tenant, name) with
\* no record, never raises: it works on the ephemeral record, changes no
\* record, hands the submitted credentials to the tool, and returns {error}
\* exactly when format validation fails or the live call throws, {result}
\* otherwise.
C7_EphemeralPreviewNeverRaises ==
    [][(/\ call'.op = "preview"
        /\ call'.schemaType \in SchemaTypes
        /\ ParseOk(call'.schema)
        /\ call'.tool \in 1..BundleCount(call'.schema)
        /\ "auth_type" \in DOMAIN call'.creds
        /\ call'.creds.auth_type \in AuthTypes
        /\ \A r \in store : ~SameKey(r, call'.tenant, call'.name))
       => /\ result' \in {"result", "error"}
          /\ result' = "error" <=> (~FormatOk(call'.creds) \/ call'.live = "throws")
          /\ call'.found = 0
          /\ bound'.set => bound'.creds = call'.creds
          /\ store' = store /\ committed' = committed
      ]_vars

\* An ephemeral preview whose live validation threw returned {error}.
C7_Witness ==
    /\ call.op = "preview"
    /\ call.found = 0
    /\ call.live = "throws"
    /\ FormatOk(call.creds)
    /\ result = "error"

\* C8: a delete for a (tenant, name) that has a record succeeds and leaves no
\* record of that (tenant, name) and every other record as it was; a delete
\* for a (tenant, name) without a record fails not-found and changes nothing.
C8_DeleteRemovesTheRecord ==
    [][call'.op = "delete" =>
         IF \E r \in store : SameKey(r, call'.tenant, call'.name)
         THEN /\ result' = "success"
              /\ store' = {r \in store : ~SameKey(r, call'.tenant, call'.name)}
              /\ committed' = store'
         ELSE /\ result' = "not_found"
              /\ store' = store
              /\ committed' = committed
      ]_vars

\* C9: a request whose label attachment did not fail ends in success, conflict
\* or not-found, and two requests never both get a create of one
\* (tenant, name) committed.
C9_RacesEndInConflictOrNotFound ==
    /\ \A p \in Procs :
           (proc[p].pc = "done" /\ proc[p].lab # "failed")
               => proc[p].res \in {"success", "conflict", "not_found"}
    /\ \A p \in Procs : \A q \in Procs :
           (/\ p # q
            /\ proc[p].pc # "idle" /\ proc[q].pc # "idle"
            /\ proc[p].op = "create" /\ proc[q].op = "create"
            /\ "commit" \in proc[p].did /\ "commit" \in proc[q].did
            /\ proc[p].tenant = proc[q].tenant /\ proc[p].name = proc[q].name)
               => ~(proc[p].row \in committed /\ proc[q].row \in committed)

\* C10: a request attaches labels only after its commit and, in update, after
\* its cache invalidation; a label attachment, failed or not, leaves the
\* committed records as they are.
C10_LabelsAfterCommit ==
    /\ [](\A p \in Procs :
            (proc[p].pc # "idle" /\ "labels" \in proc[p].did)
                => /\ "commit" \in proc[p].did
                   /\ proc[p].op = "update" => "cache" \in proc[p].did)
    /\ [][\A p \in Procs :
            (proc'[p].pc # "idle" /\ proc[p].pc = "run"
             /\ "labels" \in proc'[p].did /\ "labels" \notin proc[p].did)
                => committed' = committed
         ]_vars

\* An update committed its renamed record, invalidated the cache, then failed
\* to attach labels, and the record is still stored as committed.
C10_Witness ==
    \E p \in Procs :
        /\ proc[p].pc = "done"
        /\ proc[p].op = "update"
        /\ proc[p].lab = "failed"
        /\ proc[p].res = "label_error"
        /\ proc[p].did = {"commit", "cache", "labels"}
        /\ proc[p].row \in committed

====
